---- MODULE Spec2Model ----
(***************************************************************************)
(* A model of tea (src/tea.go): standard input is copied to standard       *)
(* output and to a list of triggers.  Each trigger buffers the stream,     *)
(* looks for matches of its pattern (line by line, or over the whole       *)
(* buffer for a multi-line pattern) and runs one subprocess per match, at  *)
(* most one at a time, sequenced by a channel of capacity one.             *)
(*                                                                         *)
(* Bytes are one-character strings, byte strings are sequences of them.    *)
(* A compiled pattern is a literal byte string, with or without one       *)
(* capturing group; the empty literal is a pattern that matches the empty  *)
(* string.  Offsets are 0-based, half-open, as regexp.FindSubmatchIndex    *)
(* returns them.                                                           *)
(***************************************************************************)
EXTENDS Integers, Sequences, FiniteSets, TLC

\* ---------------------------------------------------------------- bounds
\* The longest input stream that is explored.
MaxLen == 3

\* The value of the -buf flag (the default is 1<<16; any value can be set).
BufLimit == 2

\* ------------------------------------------------------------- constants
NL == "\n"
Byte == {"a", NL}

\* The capacity of trigger.sync: make(chan struct{}, 1).
SyncCapTwo == 1 + 1
SyncCap == 1

\* A dispatch loop that never consumes input (a multi-line pattern matching
\* the empty string) is explored up to this many matches.
MaxFound == MaxLen + 1

\* The rules a trigger is parsed from: a pattern and whether it is multi-line.
\* grp lists the capturing groups of the pattern as pairs of offsets into the
\* literal, <<-1, -1>> for a group that takes part in no match: (x)?a with
\* x a byte the stream does not contain, a(a), and \n(a).
Rules ==
  { [re |-> <<"a">>,      grp |-> <<-1, -1>>, multi |-> FALSE],
    [re |-> <<"a", "a">>, grp |-> <<1, 2>>,   multi |-> FALSE],
    [re |-> <<>>,         grp |-> <<>>,       multi |-> FALSE],
    [re |-> <<"a">>,      grp |-> <<>>,       multi |-> TRUE],
    [re |-> <<NL, "a">>,  grp |-> <<1, 2>>,   multi |-> TRUE],
    [re |-> <<>>,         grp |-> <<>>,       multi |-> TRUE] }

\* The command lines explored: no trigger, one trigger, and two triggers of
\* which one is a line trigger and the other a multi-line trigger.
Configs == {<<>>} \cup {<<r>> : r \in Rules} \cup
           {c \in {<<r1, r2>> : r1 \in Rules, r2 \in Rules} :
              c[1].multi # c[2].multi}

Inputs == UNION {[1..n -> Byte] : n \in 0..MaxLen}

VARIABLES
  input,     \* the bytes standard input will deliver
  trig,      \* the triggers of the command line, in order
  pc,        \* where the main goroutine is
  cur,       \* the trigger main is writing to or closing
  chunk,     \* the chunk io.Copy is passing to the writers
  closing,   \* the argument of the dispatch call in progress
  rpos,      \* number of input bytes read so far
  out,       \* the bytes written to standard output
  cerr,      \* the error io.Copy ended with, "" if none
  buf,       \* per trigger: t.buf
  mu,        \* per trigger: whether t.mu is locked
  sync,      \* per trigger: number of values in the channel t.sync
  procs,     \* per trigger: the goroutines started by dispatch
  seen,      \* per trigger: all bytes passed to Write so far
  found,     \* per trigger: the matches hasMatch reported, in order
  started,   \* per trigger: ids of the matches whose subprocess started
  completed, \* per trigger: ids of the matches whose subprocess finished
  errors,    \* per trigger: number of "Error: executing" lines logged
  closed,    \* per trigger: whether Close has returned
  ncall,     \* history: matches reported in the Write or Close in progress
  solo       \* history: per trigger, the trigger run alone on its chunks

vars == <<input, trig, pc, cur, chunk, closing, rpos, out, cerr, buf,
          mu, sync, procs, seen, found, started, completed, errors, closed,
          ncall, solo>>

N == Len(trig)
T == 1..N

\* ------------------------------------------------------------ the matcher
Min(S) == CHOOSE x \in S : \A y \in S : x <= y

\* bytes.IndexByte(b, c): index of the first c in b, -1 if there is none.
IndexByte(b, c) ==
  LET at == {i \in 1..Len(b) : b[i] = c}
  IN  IF at = {} THEN -1 ELSE Min(at) - 1

\* re.FindSubmatchIndex(b): the leftmost match of re in b as <<start, end>>,
\* or <<>> (nil) when there is none.
FindSubmatchIndex(re, b) ==
  LET n == Len(re)
      at == {i \in 0..(Len(b) - n) : SubSeq(b, i + 1, i + n) = re}
  IN  IF at = {} THEN <<>> ELSE <<Min(at), Min(at) + n>>

NoMatch(b) == [ok |-> FALSE, m |-> <<>>, text |-> <<>>, buf |-> b]

\* t.buf.Next(n): the first n bytes, and what is left in the buffer.
Next_head(b, n) == SubSeq(b, 1, n)
Next_rest(b, n) == SubSeq(b, n + 1, Len(b))
\* Consuming only as many bytes as the match is long.
ConsumedMatchOnly(m) == m[2] - m[1]

\* Line 202: on a match the buffer is consumed through the end of the match.
Consumed(m) == m[2]

\* Discarding the newest data instead of the oldest.
DiscardNewest(b) ==
  IF Len(b) > BufLimit THEN Next_head(b, BufLimit) ELSE b

\* Lines 197-199: data in excess of the buffer size limit is discarded.
Discard(b) ==
  IF Len(b) > BufLimit THEN Next_rest(b, Len(b) - BufLimit) ELSE b

\* A line that keeps its newline.
LineWithNewline(b, i) == Next_head(b, i + 1)

\* Line 210: the line ending at the newline at index i, without the newline.
LineAt(b, i) == SubSeq(Next_head(b, i + 1), 1, i)

\* Lines 192-203: hasMatch for a multi-line trigger.
hasMatchMulti(re, b) ==
  LET m == FindSubmatchIndex(re, b)
  IN  IF m = <<>>
      THEN NoMatch(Discard(b))
      ELSE [ok |-> TRUE, m |-> m, text |-> Next_head(b, Consumed(m)),
            buf |-> Next_rest(b, Consumed(m))]

\* Lines 205-223: hasMatch for a line trigger scans ahead line by line.
RECURSIVE hasMatchLine(_, _, _)
hasMatchLine(re, b, isClosing) ==
  IF Len(b) = 0 THEN NoMatch(b)
  ELSE LET i == IndexByte(b, NL)
           line == IF i >= 0 THEN LineAt(b, i) ELSE Next_head(b, Len(b))
           rest == IF i >= 0 THEN Next_rest(b, i + 1) ELSE <<>>
           m == FindSubmatchIndex(re, line)
       IN  IF i < 0 /\ ~isClosing THEN NoMatch(b)
           ELSE IF m # <<>>
                THEN [ok |-> TRUE, m |-> m, text |-> line, buf |-> rest]
                ELSE hasMatchLine(re, rest, isClosing)

\* Group offsets that are not moved to where the match starts.
SubmatchesUnshifted(grp, m) == m \o grp

\* Lines 193, 219: FindSubmatchIndex returns, after the span of the match, a
\* pair of offsets for every capturing group, relative to what was searched,
\* and -1, -1 for a group that took no part in the match.
Submatches(grp, m) ==
  m \o [i \in 1..Len(grp) |-> IF grp[i] < 0 THEN -1 ELSE m[1] + grp[i]]

WithSubmatches(grp, r) ==
  IF r.ok THEN [r EXCEPT !.m = Submatches(grp, @)] ELSE r

\* Lines 191-224: t.hasMatch(closing) on buffer b; buf is the buffer it leaves.
hasMatch(t, b, isClosing) ==
  WithSubmatches(t.grp, IF t.multi THEN hasMatchMulti(t.re, b)
                                   ELSE hasMatchLine(t.re, b, isClosing))

\* Lines 231-236: what ExpandString puts for the placeholder of group k
\* (0 is the whole match) given the text and the offsets m; a group that took
\* no part in the match expands to nothing.
Expand(text, m, k) ==
  IF 2 * k + 2 > Len(m) \/ m[2 * k + 1] < 0 THEN <<>>
  ELSE SubSeq(text, m[2 * k + 1] + 1, m[2 * k + 2])

\* Lines 255-257, 280-282: the loop "for t.dispatch(closing) {}" run to its
\* end on buffer b with the matches f reported before it: the buffer it leaves
\* and the matches reported, in order.
RECURSIVE dispatchLoop(_, _, _, _)
dispatchLoop(t, b, f, isClosing) ==
  CHOOSE end \in
    { IF r.ok /\ Len(f) < MaxFound
      THEN dispatchLoop(t, r.buf, Append(f, [m |-> r.m, text |-> r.text]),
                        isClosing)
      ELSE [buf |-> r.buf, found |-> f] : r \in {hasMatch(t, b, isClosing)} } :
    TRUE

\* ------------------------------------------------------------------ Init
\* The state after parseTrigger has built the triggers c (lines 162-170) and
\* before io.Copy starts, with i on standard input.
InitWith(i, c) ==
  /\ input = i
  /\ trig = c
  /\ pc = "read"
  /\ cur = 0
  /\ chunk = <<>>
  /\ closing = FALSE
  /\ rpos = 0
  /\ out = <<>>
  /\ cerr = ""
  /\ buf = [t \in T |-> <<>>]
  /\ mu = [t \in T |-> FALSE]
  /\ sync = [t \in T |-> 0]
  /\ procs = [t \in T |-> {}]
  /\ seen = [t \in T |-> <<>>]
  /\ found = [t \in T |-> <<>>]
  /\ started = [t \in T |-> <<>>]
  /\ completed = [t \in T |-> <<>>]
  /\ errors = [t \in T |-> 0]
  /\ closed = [t \in T |-> FALSE]
  /\ ncall = 0
  /\ solo = [t \in T |-> [buf |-> <<>>, found |-> <<>>]]

Init == \E i \in Inputs : \E c \in Configs : InitWith(i, c)

\* -------------------------------------------------- the main goroutine
\* Lines 97, 103: main returns and the deferred Closes run, last trigger first.
Deferred ==
  /\ chunk' = <<>>
  /\ IF N = 0 THEN pc' = "done" /\ cur' = 0
              ELSE pc' = "close" /\ cur' = N

\* A failed copy that ends the process at once (as log.Fatalf would).
CopyFailedExit == pc' = "done" /\ cur' = 0 /\ chunk' = <<>>

\* Lines 99-103: the error of io.Copy is logged with log.Printf and main
\* returns as it does without an error, so the deferred Closes run.
CopyFailed == Deferred

\* One channel shared by all the triggers.
SlotShared(t) == 1

\* Line 168: every trigger is given a channel of its own.
Slot(t) == t

\* A send that does not wait for room in the channel.
CanSendAlways(t) == TRUE

\* The channel send t.sync <- struct{}{} can proceed (lines 268, 283).
CanSend(t) == sync[Slot(t)] < SyncCap

\* A Close that returns without waiting for the slot.
CloseNoSync(t) == TRUE

\* Line 283: Close returns once its send on t.sync has gone through.
CloseSync(t) == CanSend(t)

\* A Write that reports one byte less than it was given.
WriteCountShort(data) == Len(data) - 1

\* Lines 254, 258: Write returns the count bytes.Buffer.Write reports, which
\* is the length of the data.
WriteCount(data) == Len(data)

\* Line 99: io.Copy reads the next chunk from standard input.
ReadChunk ==
  /\ pc = "read"
  /\ \E k \in 1..(Len(input) - rpos) :
       /\ chunk' = SubSeq(input, rpos + 1, rpos + k)
       /\ rpos' = rpos + k
  /\ pc' = "stdout"
  /\ UNCHANGED <<input, trig, ncall, solo, cur, closing, out, cerr, buf, mu, sync, procs,
                 seen, found, started, completed, errors, closed>>

\* Line 99: the read reports end of input; io.Copy returns nil.
ReadEOF ==
  /\ pc = "read"
  /\ rpos = Len(input)
  /\ Deferred
  /\ UNCHANGED <<input, trig, ncall, solo, closing, rpos, out, cerr, buf, mu, sync, procs,
                 seen, found, started, completed, errors, closed>>

\* Lines 99-102: the read fails; io.Copy returns the error, which is logged.
ReadError ==
  /\ pc = "read"
  /\ cerr' = "read"
  /\ CopyFailed
  /\ UNCHANGED <<input, trig, ncall, solo, closing, rpos, out, buf, mu, sync, procs,
                 seen, found, started, completed, errors, closed>>

\* A fan-out that hands the chunk to the triggers without having written it
\* to os.Stdout.
WriteStdoutSkipped ==
  /\ pc = "stdout"
  /\ IF N = 0 THEN pc' = "read" /\ cur' = 0 /\ chunk' = <<>>
              ELSE pc' = "write" /\ cur' = 1 /\ chunk' = chunk
  /\ UNCHANGED <<input, trig, ncall, solo, closing, rpos, out, cerr, buf, mu,
                 sync, procs, seen, found, started, completed, errors, closed>>

\* Lines 89, 99: the MultiWriter writes the chunk to os.Stdout first.
WriteStdout ==
  /\ pc = "stdout"
  /\ out' = out \o chunk
  /\ IF N = 0 THEN pc' = "read" /\ cur' = 0 /\ chunk' = <<>>
              ELSE pc' = "write" /\ cur' = 1 /\ chunk' = chunk
  /\ UNCHANGED <<input, trig, ncall, solo, closing, rpos, cerr, buf, mu, sync, procs,
                 seen, found, started, completed, errors, closed>>

\* Lines 99-102: the write to os.Stdout fails after k bytes; io.Copy returns.
WriteStdoutError ==
  /\ pc = "stdout"
  /\ \E k \in 0..(Len(chunk) - 1) : out' = out \o SubSeq(chunk, 1, k)
  /\ cerr' = "stdout"
  /\ CopyFailed
  /\ UNCHANGED <<input, trig, ncall, solo, closing, rpos, buf, mu, sync, procs,
                 seen, found, started, completed, errors, closed>>

\* Lines 252-254: Write locks t.mu and copies the data into the buffer.
Write ==
  /\ pc = "write"
  /\ ~mu[cur]
  /\ mu' = [mu EXCEPT ![cur] = TRUE]
  /\ buf' = [buf EXCEPT ![cur] = @ \o chunk]
  /\ seen' = [seen EXCEPT ![cur] = @ \o chunk]
  /\ closing' = FALSE
  /\ pc' = "dispatch"
  /\ ncall' = 0
  /\ solo' = [solo EXCEPT ![cur] =
                dispatchLoop(trig[cur], @.buf \o chunk, @.found, FALSE)]
  /\ UNCHANGED <<input, trig, cur, chunk, rpos, out, cerr, sync, procs,
                 found, started, completed, errors, closed>>

\* Lines 257-258: the dispatch loop of Write is over; Write unlocks and
\* returns, and the MultiWriter goes on to the next writer or io.Copy reads.
\* A writer that reports fewer bytes makes the MultiWriter fail with a short
\* write, which ends io.Copy (line 99).
WriteReturn ==
  IF WriteCount(chunk) # Len(chunk)
  THEN cerr' = "short write" /\ CopyFailed
  ELSE /\ cerr' = cerr
       /\ IF cur < N THEN pc' = "write" /\ cur' = cur + 1 /\ chunk' = chunk
                     ELSE pc' = "read" /\ cur' = 0 /\ chunk' = <<>>

\* Lines 263-267: dispatch calls hasMatch; without a match it returns false,
\* which ends the loop of Write (lines 255-258) or of Close (lines 280-282).
dispatch ==
  /\ pc = "dispatch"
  /\ \E r \in {hasMatch(trig[cur], buf[cur], closing)} :
       /\ buf' = [buf EXCEPT ![cur] = r.buf]
       /\ IF r.ok
          THEN /\ Len(found[cur]) < MaxFound
               /\ found' = [found EXCEPT
                    ![cur] = Append(@, [m |-> r.m, text |-> r.text])]
               /\ pc' = "send"
               /\ ncall' = ncall + 1
               /\ UNCHANGED <<cur, chunk, mu, cerr>>
          ELSE /\ found' = found
               /\ mu' = [mu EXCEPT ![cur] = FALSE]
               /\ IF closing
                  THEN pc' = "wait" /\ UNCHANGED <<cur, chunk, cerr, ncall>>
                  ELSE WriteReturn /\ ncall' = 0
  /\ UNCHANGED <<input, trig, solo, closing, rpos, out, sync, procs, seen,
                 started, completed, errors, closed>>

\* A dispatch that gives up the match when the slot is taken.
dispatchSendOrDrop ==
  /\ pc = "send"
  /\ IF CanSend(cur)
     THEN /\ sync' = [sync EXCEPT ![Slot(cur)] = @ + 1]
          /\ procs' = [procs EXCEPT
               ![cur] = @ \cup {[id |-> Len(found[cur]), st |-> "go"]}]
     ELSE UNCHANGED <<sync, procs>>
  /\ pc' = "dispatch"
  /\ UNCHANGED <<input, trig, ncall, solo, cur, chunk, closing, rpos, out, cerr, buf, mu,
                 seen, found, started, completed, errors, closed>>

\* Lines 268-273: dispatch waits for the slot, starts the goroutine that
\* fires the match and returns true, so the loop calls dispatch again.
dispatchSend ==
  /\ pc = "send"
  /\ CanSend(cur)
  /\ sync' = [sync EXCEPT ![Slot(cur)] = @ + 1]
  /\ procs' = [procs EXCEPT
       ![cur] = @ \cup {[id |-> Len(found[cur]), st |-> "go"]}]
  /\ pc' = "dispatch"
  /\ UNCHANGED <<input, trig, ncall, solo, cur, chunk, closing, rpos, out, cerr, buf, mu,
                 seen, found, started, completed, errors, closed>>

\* Lines 278-279: a deferred Close locks t.mu and starts its dispatch loop.
Close ==
  /\ pc = "close"
  /\ ~mu[cur]
  /\ mu' = [mu EXCEPT ![cur] = TRUE]
  /\ closing' = TRUE
  /\ pc' = "dispatch"
  /\ ncall' = 0
  /\ solo' = [solo EXCEPT ![cur] =
                dispatchLoop(trig[cur], @.buf, @.found, TRUE)]
  /\ UNCHANGED <<input, trig, cur, chunk, rpos, out, cerr, buf, sync, procs,
                 seen, found, started, completed, errors, closed>>

\* A Close that takes its value back from the channel before it returns.
CloseWaitReleases ==
  /\ pc = "wait"
  /\ CloseSync(cur)
  /\ closed' = [closed EXCEPT ![cur] = TRUE]
  /\ IF cur > 1 THEN pc' = "close" /\ cur' = cur - 1
                ELSE pc' = "done" /\ cur' = 0
  /\ ncall' = 0
  /\ UNCHANGED <<input, trig, solo, chunk, closing, rpos, out, cerr, buf, mu,
                 sync, procs, seen, found, started, completed, errors>>

\* Lines 283-284: Close waits for the last subprocess by sending on t.sync,
\* then returns; the next deferred Close runs, or main is done.
CloseWait ==
  /\ pc = "wait"
  /\ CloseSync(cur)
  /\ sync' = [sync EXCEPT ![Slot(cur)] = @ + 1]
  /\ closed' = [closed EXCEPT ![cur] = TRUE]
  /\ IF cur > 1 THEN pc' = "close" /\ cur' = cur - 1
                ELSE pc' = "done" /\ cur' = 0
  /\ ncall' = 0
  /\ UNCHANGED <<input, trig, solo, chunk, closing, rpos, out, cerr, buf, mu,
                 procs, seen, found, started, completed, errors>>

\* ------------------------------------- the goroutines started by dispatch
SetSt(t, p, st) ==
  [procs EXCEPT ![t] = (@ \ {p}) \cup {[p EXCEPT !.st = st]}]

\* Lines 270, 228-245: the goroutine runs; fire starts the subprocess.
fireStart(t, p) ==
  /\ pc # "done"
  /\ p.st = "go"
  /\ procs' = SetSt(t, p, "run")
  /\ started' = [started EXCEPT ![t] = Append(@, p.id)]
  /\ UNCHANGED <<input, trig, ncall, solo, pc, cur, chunk, closing, rpos, out, cerr, buf,
                 mu, sync, seen, found, completed, errors, closed>>

\* A fire that does not return when the subprocess has failed.
fireReturnsOnSuccess(ok) == IF ok THEN "ran" ELSE "failed"

\* Lines 245-248: an error of proc.Run is logged and fire returns all the
\* same, so the goroutine goes on to its receive from t.sync.
fireReturns(ok) == "ran"

\* Lines 245-248: proc.Run returns, with an error (logged) or without.
fireEnd(t, p) ==
  /\ pc # "done"
  /\ p.st = "run"
  /\ completed' = [completed EXCEPT ![t] = Append(@, p.id)]
  /\ \E ok \in BOOLEAN :
       /\ procs' = SetSt(t, p, fireReturns(ok))
       /\ errors' = [errors EXCEPT ![t] = IF ok THEN @ ELSE @ + 1]
  /\ UNCHANGED <<input, trig, ncall, solo, pc, cur, chunk, closing, rpos, out, cerr, buf,
                 mu, sync, seen, found, started, closed>>

\* A goroutine that ends without receiving from t.sync.
releaseLeak(t, p) ==
  /\ pc # "done"
  /\ p.st = "ran"
  /\ procs' = [procs EXCEPT ![t] = @ \ {p}]
  /\ UNCHANGED <<input, trig, ncall, solo, pc, cur, chunk, closing, rpos, out, cerr, buf,
                 mu, sync, seen, found, started, completed, errors, closed>>

\* Line 271: the goroutine receives from t.sync, freeing the slot, and ends.
release(t, p) ==
  /\ pc # "done"
  /\ p.st = "ran"
  /\ sync[Slot(t)] > 0
  /\ sync' = [sync EXCEPT ![Slot(t)] = @ - 1]
  /\ procs' = [procs EXCEPT ![t] = @ \ {p}]
  /\ UNCHANGED <<input, trig, ncall, solo, pc, cur, chunk, closing, rpos, out, cerr, buf,
                 mu, seen, found, started, completed, errors, closed>>

MainNext ==
  \/ ReadChunk
  \/ ReadEOF
  \/ ReadError
  \/ WriteStdout
  \/ WriteStdoutError
  \/ Write
  \/ dispatch
  \/ dispatchSend
  \/ Close
  \/ CloseWait

GoNext(t) ==
  \E p \in procs[t] :
    \/ fireStart(t, p)
    \/ fireEnd(t, p)
    \/ release(t, p)

Next == MainNext \/ \E t \in T : GoNext(t)

Spec == Init /\ [][Next]_vars

\* The largest number of triggers on a command line that is explored.
MaxTrig == 1 + 1

\* The command lines and the inputs the fair behaviours are explored for.
LiveConfigs ==
  { <<[re |-> <<"a">>, grp |-> <<-1, -1>>, multi |-> FALSE]>>,
    <<[re |-> <<"a">>, grp |-> <<>>, multi |-> TRUE]>>,
    <<[re |-> <<"a">>, grp |-> <<-1, -1>>, multi |-> FALSE],
      [re |-> <<"a">>, grp |-> <<>>, multi |-> TRUE]>> }

LiveInputs ==
  { [j \in 1..MaxLen |-> "a"],
    [j \in 1..MaxLen |-> IF j % 2 = 1 THEN "a" ELSE NL] }

LiveInit == \E i \in LiveInputs : \E c \in LiveConfigs : InitWith(i, c)

\* The Go scheduler runs every goroutine that can run: main, and per trigger
\* the goroutine of a dispatched match, whose subprocess terminates.
FairSpec ==
  /\ LiveInit
  /\ [][Next]_vars
  /\ WF_vars(MainNext)
  /\ \A t \in 1..MaxTrig : WF_vars(t \in T /\ GoNext(t))

\* ---------------------------------------------------------------- claims
StartedIds(t) == {started[t][i] : i \in 1..Len(started[t])}
CompletedIds(t) == {completed[t][i] : i \in 1..Len(completed[t])}
ProcIds(t) == {p.id : p \in procs[t]}

\* The subprocesses of trigger t that are executing.
InFlight(t) == {p \in procs[t] : p.st = "run"}

\* C1: for every trigger at most one action execution is in flight, and the
\* action of a later match has started only if the action of the previous
\* match of that trigger has completed.
C1_OneInFlight ==
  \A t \in T :
    /\ Cardinality(InFlight(t)) <= 1
    /\ Cardinality(procs[t]) <= 1
    /\ \A k \in StartedIds(t) : k > 1 => (k - 1) \in CompletedIds(t)

\* A second match's action is running after the first one has completed.
C1_Witness ==
  \E t \in T : /\ InFlight(t) # {}
               /\ 2 \in StartedIds(t)
               /\ 1 \in CompletedIds(t)

\* io.Copy is running: main reads, writes to os.Stdout or is in a Write.
Copying == ~closing /\ pc \in {"read", "stdout", "write", "dispatch", "send"}

\* Main is in the Write of trigger t.
InWrite(t) == Copying /\ cur = t /\ pc \in {"dispatch", "send"}

\* The dispatch loop has reached the number of matches that is explored.
Capped == pc = "dispatch" /\ Len(found[cur]) >= MaxFound

\* The actions of trigger t that have been handed off and have not completed.
Pending(t) == {p \in procs[t] : p.st \in {"go", "run"}}

\* C2 (as claimed): Write never blocks on action completion: it is never
\* waiting, with a match to hand off, for an action of its trigger to finish.
C2_WriteNeverBlocks ==
  \A t \in T : ~(InWrite(t) /\ pc = "send" /\ ~CanSend(t) /\ Pending(t) # {})

\* C2 (amended): Write waits only to hand off a match while the goroutine of
\* the previous match of the same trigger holds the slot; it does not wait
\* for the actions it has handed off, whose running never keeps it from
\* looking for the next match or from returning; and when it has returned
\* every match available in the buffer has been handed off.
C2_WriteWaitsOnlyForSlot ==
  \A t \in T :
    /\ (InWrite(t) /\ pc = "send" /\ ~ENABLED dispatchSend) =>
         \E p \in procs[t] : p.id = Len(found[t]) - 1
    /\ (InWrite(t) /\ pc = "dispatch" /\ ~Capped /\ Pending(t) # {}) =>
         ENABLED dispatch
    /\ (~mu[t] /\ Copying /\ seen[t] # <<>>) =>
         /\ ~hasMatch(trig[t], buf[t], FALSE).ok
         /\ \A k \in 1..Len(found[t]) : k \in ProcIds(t) \cup CompletedIds(t)

\* Write has returned, and io.Copy reads on, while the action of the match it
\* handed off is running.
C2_Witness ==
  \E t \in T : /\ pc = "read"
               /\ Copying
               /\ ~mu[t]
               /\ found[t] # <<>>
               /\ \E p \in InFlight(t) : p.id = Len(found[t])

\* C3 (as claimed): while an action of some trigger is running, the fan-out
\* is never held up: main can take its next step of the copy.
C3_FanOutNeverBlocked ==
  (Copying /\ ~Capped /\ \E t \in T : Pending(t) # {}) => ENABLED MainNext

\* C3 (amended): the fan-out is held up only in the Write of a trigger that
\* has found a further match while its own previous action holds its slot;
\* the pending actions of the other triggers never hold it up.
C3_BlockedOnlyByOwnMatch ==
  /\ (Copying /\ pc = "send" /\ ~ENABLED MainNext) =>
        /\ ~CanSend(cur)
        /\ procs[cur] # {}
  /\ (Copying /\ pc # "send" /\ ~Capped /\ \E t \in T : Pending(t) # {}) =>
        ENABLED MainNext

\* While the action of the first trigger is running, the chunk is delivered
\* to the second trigger, which hands off a match of its own.
C3_Witness ==
  /\ N = 2
  /\ InFlight(1) # {}
  /\ InWrite(2)
  /\ pc = "dispatch"
  /\ found[2] # <<>>
  /\ ProcIds(2) # {}

\* C4: within a trigger the actions start in the order the matches are found
\* and complete in that order, the i-th completing before the (i+1)-th starts.
C4_MatchOrder ==
  \A t \in T :
    /\ \A i \in 1..Len(started[t]) : started[t][i] = i
    /\ \A i \in 1..Len(completed[t]) : completed[t][i] = i
    /\ Len(started[t]) <= Len(found[t])
    /\ Len(completed[t]) <= Len(started[t])
    /\ Len(started[t]) <= Len(completed[t]) + 1

\* Three matches of a trigger were found and the second action has completed
\* while the third has not started.
C4_Witness ==
  \E t \in T : /\ Len(found[t]) >= 3
               /\ Len(completed[t]) = 2
               /\ Len(started[t]) = 2

\* C5: Close has returned only if every action dispatched for the trigger, by
\* a Write or by Close itself, has completed; main is done only after every
\* trigger's Close has returned.
C5_CloseWaits ==
  /\ \A t \in T :
       closed[t] => /\ InFlight(t) = {}
                    /\ \A k \in 1..Len(found[t]) : k \in CompletedIds(t)
  /\ pc = "done" => \A t \in T : closed[t]

\* Close has returned for a trigger that dispatched two matches, the last of
\* them an unterminated line handed off by Close itself.
C5_Witness ==
  \E t \in T : /\ closed[t]
               /\ ~trig[t].multi
               /\ Len(found[t]) >= 2
               /\ seen[t] # <<>>
               /\ seen[t][Len(seen[t])] # NL
               /\ found[t][Len(found[t])].text # <<>>

\* Every match found is waiting to be handed off by dispatch, is with its
\* goroutine, or has completed; no match is run twice; and once Close has
\* returned as many actions have been executed as matches were found.
C6_Accounted ==
  \A t \in T :
    /\ \A k \in 1..Len(found[t]) :
         \/ k \in ProcIds(t) \cup CompletedIds(t)
         \/ k = Len(found[t]) /\ pc = "send" /\ cur = t
    /\ StartedIds(t) \subseteq 1..Len(found[t])
    /\ Cardinality(StartedIds(t)) = Len(started[t])
    /\ Cardinality(CompletedIds(t)) = Len(completed[t])
    /\ Cardinality(ProcIds(t)) = Cardinality(procs[t])
    /\ ProcIds(t) \cap CompletedIds(t) \subseteq {p.id : p \in procs[t] \ Pending(t)}
    /\ closed[t] => Len(completed[t]) = Len(found[t])

\* C6: no dispatch is dropped because the slot is held: every match found
\* results in exactly one action execution, which eventually starts (the
\* earlier actions of the trigger terminating), and the number of actions
\* executed equals the number of matches found.
C6_NoDispatchDropped ==
  /\ []C6_Accounted
  /\ \A t \in 1..MaxTrig : \A k \in 1..MaxFound :
       (t \in T /\ Len(found[t]) >= k) ~> (t \in T /\ k \in StartedIds(t))

\* A match is found while the slot is held by the previous action, and that
\* match's action has nevertheless started later on: here the third match
\* waits for the slot while the second, which waited too, is running.
C6_Witness ==
  \E t \in T : /\ pc = "send"
               /\ cur = t
               /\ ~CanSend(t)
               /\ Len(found[t]) = 3
               /\ \E p \in InFlight(t) : p.id = 2

IsPrefix(a, b) == Len(a) <= Len(b) /\ a = SubSeq(b, 1, Len(a))
IsSuffix(a, b) == Len(a) <= Len(b) /\ a = SubSeq(b, Len(b) - Len(a) + 1, Len(b))
Last(q) == q[Len(q)]

\* C7: whatever the triggers and whether their actions succeed or fail, the
\* bytes written to standard output are a prefix of the input at every
\* moment, and are the input once the copy has finished (the copy not having
\* been cut short by a failure of the source or of standard output itself).
C7_PassThrough ==
  /\ IsPrefix(out, input)
  /\ (~Copying /\ cerr \notin {"read", "stdout"}) => out = input

\* The copy is over with two triggers configured, one that never matched and
\* one whose action failed, and some input was copied.
C7_Witness ==
  /\ pc = "done"
  /\ cerr = ""
  /\ input # <<>>
  /\ \E t \in T : found[t] = <<>>
  /\ \E t \in T : errors[t] > 0

\* The lines of s that end in a newline, and what follows the last newline.
RECURSIVE CompleteLines(_)
CompleteLines(s) ==
  IF \A i \in 1..Len(s) : s[i] # NL THEN <<>>
  ELSE LET i == CHOOSE i \in 1..Len(s) :
                  s[i] = NL /\ \A j \in 1..(i - 1) : s[j] # NL
       IN  <<SubSeq(s, 1, i - 1)>> \o CompleteLines(SubSeq(s, i + 1, Len(s)))

RECURSIVE TailOf(_)
TailOf(s) ==
  IF s = <<>> \/ Last(s) = NL THEN <<>>
  ELSE Append(TailOf(SubSeq(s, 1, Len(s) - 1)), Last(s))

AllLines(s) ==
  IF TailOf(s) = <<>> THEN CompleteLines(s)
                      ELSE Append(CompleteLines(s), TailOf(s))

\* The pattern re occurs in the line.
Satisfies(line, re) ==
  \E i \in 1..(Len(line) - Len(re) + 1) :
    \A j \in 1..Len(re) : line[i + j - 1] = re[j]

Texts(t) == [i \in 1..Len(found[t]) |-> found[t][i].text]

\* Close has run its dispatch loop on trigger t.
Drained(t) == closed[t] \/ (pc = "wait" /\ cur = t)

\* C8: for a line trigger, however the stream was split into chunks, the
\* texts dispatched are in order exactly the lines of the stream that satisfy
\* the pattern, the newline excluded: the terminated lines while the stream
\* is written, and the non-empty unterminated rest as well once Close has
\* drained the buffer.  Lines that were examined are gone from the buffer.
C8_LineMatches ==
  \A t \in T :
    (~trig[t].multi /\ ~mu[t]) =>
       LET lines == IF Drained(t) THEN AllLines(seen[t])
                                  ELSE CompleteLines(seen[t])
       IN  /\ Texts(t) = SelectSeq(lines, LAMBDA l : Satisfies(l, trig[t].re))
           /\ buf[t] = IF Drained(t) THEN <<>> ELSE TailOf(seen[t])

\* A line trigger was closed after a stream with a line that did not match,
\* and an unterminated last line that did.
C8_Witness ==
  \E t \in T : /\ ~trig[t].multi
               /\ closed[t]
               /\ TailOf(seen[t]) # <<>>
               /\ found[t] # <<>>
               /\ Last(found[t]).text = TailOf(seen[t])
               /\ Len(AllLines(seen[t])) > Len(found[t])

\* C9: when hasMatch finds a match ending at offset e in the buffer of a
\* multi-line trigger, the text handed over is the first e bytes and the
\* buffer keeps exactly the bytes after them; the buffer always is the tail
\* of the stream from an offset that never moves back, so a byte that was
\* removed is never scanned again.
C9_ConsumesThroughMatch ==
  [][\A t \in T : trig[t].multi =>
       /\ Len(found'[t]) = Len(found[t]) + 1 =>
            LET e == Last(found'[t]).m[2]
            IN  /\ e <= Len(buf[t])
                /\ Last(found'[t]).text = SubSeq(buf[t], 1, e)
                /\ buf'[t] = SubSeq(buf[t], e + 1, Len(buf[t]))
       /\ IsSuffix(buf'[t], seen'[t])
       /\ Len(seen'[t]) - Len(buf'[t]) >= Len(seen[t]) - Len(buf[t])]_vars

\* A match of a multi-line trigger was found after bytes that are not part
\* of it, with bytes left in the buffer behind it.
C9_Witness ==
  \E t \in T : /\ trig[t].multi
               /\ pc = "send"
               /\ cur = t
               /\ Last(found[t]).m[1] > 0
               /\ Last(found[t]).m[2] > Last(found[t]).m[1]
               /\ buf[t] # <<>>

\* C10: for a multi-line trigger, a scan that finds no match leaves the last
\* bytes of the buffer, at most as many as the limit, so that whenever Write
\* has returned the buffer is no longer than the limit and holds the most
\* recent bytes of the stream.
C10_BufferCapped ==
  /\ [](\A t \in T : (trig[t].multi /\ ~mu[t]) =>
          /\ Len(buf[t]) <= BufLimit
          /\ IsSuffix(buf[t], seen[t]))
  /\ [][\A t \in T : (trig[t].multi /\ mu[t] /\ ~mu'[t]) =>
          /\ IsSuffix(buf'[t], buf[t])
          /\ Len(buf'[t]) = IF Len(buf[t]) > BufLimit THEN BufLimit
                                                     ELSE Len(buf[t])]_vars

\* A Write to a multi-line trigger has returned without a match and with
\* more bytes written than the limit: the oldest have been dropped.
C10_Witness ==
  \E t \in T : /\ trig[t].multi
               /\ ~mu[t]
               /\ Copying
               /\ found[t] = <<>>
               /\ Len(seen[t]) > BufLimit
               /\ Len(buf[t]) = BufLimit

\* Main is in the Close of trigger t: in its dispatch loop, or past it and
\* waiting for the slot.
InClose(t) == closing /\ cur = t /\ pc \in {"dispatch", "send", "wait"}

\* C11 (as claimed): whatever was written before, Close dispatches at most
\* one action, and on a line trigger it dispatches one exactly when the
\* buffer holds a non-empty unterminated line that satisfies the pattern.
C11_CloseDispatchesAtMostOne ==
  \A t \in T :
    InClose(t) =>
      /\ ncall <= 1
      /\ (~trig[t].multi /\ pc = "wait") =>
            (ncall = 1 <=> /\ TailOf(seen[t]) # <<>>
                           /\ Satisfies(TailOf(seen[t]), trig[t].re))

\* C12 (as claimed): in both modes and for every pattern, a match attempt on
\* an empty buffer reports no match, dispatches nothing and leaves the buffer
\* as it is, draining or not.
C12_EmptyBufferNoMatch ==
  [][\A t \in T :
       (pc = "dispatch" /\ cur = t /\ buf[t] = <<>>) =>
          /\ found'[t] = found[t]
          /\ buf'[t] = <<>>]_vars

\* The bytes a step appends to the buffer of trigger t.
Added(t) == SubSeq(seen'[t], Len(seen[t]) + 1, Len(seen'[t]))

\* The number of bytes a step removes from the buffer of trigger t.
Gone(t) == Len(buf[t]) + Len(Added(t)) - Len(buf'[t])

\* C13 (as claimed): the buffer grows only at the tail and shrinks only at
\* the head, and bytes are removed only when a match is dispatched or when
\* the buffer exceeds the limit.
C13_RemovedOnlyByMatchOrCap ==
  [][\A t \in T :
       /\ IsSuffix(buf'[t], buf[t] \o Added(t))
       /\ Gone(t) > 0 => \/ Len(found'[t]) > Len(found[t])
                         \/ Len(buf[t]) > BufLimit]_vars

\* C13 (amended): the buffer grows only at the tail, by Write, and shrinks
\* only at the head, by a match attempt.  On a match the bytes removed are, in
\* multi-line mode, the text handed over (everything through the end of the
\* match) and, in line mode, the matched line with its newline and the lines
\* before it, none of which satisfies the pattern.  Without a match the bytes
\* removed are, in multi-line mode, the oldest bytes in excess of the limit
\* and, in line mode, lines that were examined and do not satisfy the pattern
\* (complete lines, and the unterminated rest when draining).
C13_RemovedOnlyByScan ==
  [][\A t \in T :
       LET removed == SubSeq(buf[t], 1, Gone(t))
           lines == AllLines(removed)
           re == trig[t].re
       IN  /\ IsSuffix(buf'[t], buf[t] \o Added(t))
           /\ Added(t) # <<>> => Gone(t) = 0
           /\ Gone(t) > 0 =>
                /\ pc = "dispatch" /\ cur = t
                /\ IF Len(found'[t]) > Len(found[t])
                   THEN IF trig[t].multi
                        THEN removed = Last(found'[t]).text
                        ELSE /\ Last(lines) = Last(found'[t]).text
                             /\ \A i \in 1..(Len(lines) - 1) :
                                  ~Satisfies(lines[i], re)
                             /\ closing \/ Last(removed) = NL
                   ELSE IF trig[t].multi
                        THEN /\ Len(buf[t]) > BufLimit
                             /\ Len(buf'[t]) = BufLimit
                        ELSE /\ \A i \in 1..Len(lines) :
                                  ~Satisfies(lines[i], re)
                             /\ closing \/ Last(removed) = NL]_vars

\* The copy is running with a line trigger that has dropped a line that did
\* not match and a multi-line trigger that has dropped bytes over the limit,
\* neither having dispatched anything.
C13_Witness ==
  /\ Copying
  /\ \E t \in T : /\ ~trig[t].multi /\ ~mu[t] /\ found[t] = <<>>
                  /\ Len(buf[t]) < Len(seen[t])
  /\ \E t \in T : /\ trig[t].multi /\ ~mu[t] /\ found[t] = <<>>
                  /\ Len(buf[t]) < Len(seen[t])

\* C14: an action that fails (it cannot be launched, or exits with an error)
\* releases the slot like one that succeeds and does not stop the stream:
\* the goroutine of a finished action can always take its value back from
\* the channel, and after a failure the run still goes on to its end, where
\* every match of every trigger has been dispatched and executed and, the
\* copy itself not having failed, every byte has been copied and delivered.
C14_FailureDoesNotStop ==
  /\ [](\A t \in T : \A p \in procs[t] :
          p.id \in CompletedIds(t) => ENABLED release(t, p))
  /\ [](pc = "done" =>
          \A t \in T : /\ Len(completed[t]) = Len(found[t])
                        /\ errors[t] <= Len(completed[t])
                        /\ cerr = "" => (out = input /\ seen[t] = input))
  /\ ((\E t \in T : errors[t] > 0) ~> (pc = "done"))

\* While the copy is running, an action of a trigger is executing after
\* every earlier action of that trigger has failed.
C14_Witness ==
  /\ Copying
  /\ \E t \in T : /\ errors[t] >= 1
                  /\ errors[t] = Len(completed[t])
                  /\ InFlight(t) # {}

\* C15: when reading standard input or writing standard output fails, the
\* copy is over and the deferred Closes run as they do at the end of the
\* input: last trigger first, each draining its buffer (a line trigger
\* dispatches its unterminated rest if it satisfies the pattern, a multi-line
\* trigger is left without a match in its buffer) and returning only when
\* every action of the trigger has completed; main ends after all of them.
C15_CloseAfterFailure ==
  cerr \in {"read", "stdout"} =>
    /\ ~Copying
    /\ pc \in {"close", "dispatch", "send", "wait", "done"}
    /\ \A t \in T :
         /\ closed[t] <=> (pc = "done" \/ t > cur)
         /\ closed[t] =>
              /\ procs[t] = {}
              /\ CompletedIds(t) = 1..Len(found[t])
              /\ IF trig[t].multi
                 THEN FindSubmatchIndex(trig[t].re, buf[t]) = <<>>
                 ELSE /\ buf[t] = <<>>
                      /\ Texts(t) = SelectSeq(AllLines(seen[t]),
                                       LAMBDA l : Satisfies(l, trig[t].re))

\* The write to standard output failed after a first chunk had gone to two
\* triggers; both were closed, and the line trigger dispatched the
\* unterminated line it held when the copy failed.
C15_Witness ==
  /\ cerr = "stdout"
  /\ pc = "done"
  /\ N = 2
  /\ \A t \in T : closed[t]
  /\ \E t \in T : /\ ~trig[t].multi
                  /\ found[t] # <<>>
                  /\ TailOf(seen[t]) # <<>>
                  /\ Last(found[t]).text = TailOf(seen[t])

\* A step changes something that belongs to trigger t.
Touched(t) ==
  \/ buf'[t] # buf[t]     \/ mu'[t] # mu[t]         \/ sync'[t] # sync[t]
  \/ procs'[t] # procs[t] \/ seen'[t] # seen[t]     \/ found'[t] # found[t]
  \/ started'[t] # started[t] \/ completed'[t] # completed[t]
  \/ errors'[t] # errors[t]   \/ closed'[t] # closed[t]

\* C16: triggers do not interfere.  Whenever no Write or Close of a trigger
\* is in progress, its buffer and the matches it has dispatched (offsets and
\* text, in order) are what the trigger alone makes of the chunks it was
\* given, whatever other triggers there are and however their steps and the
\* steps of the actions interleave; and a step changes the buffer, slot,
\* lock, goroutines and history of one trigger at most: a step of main those
\* of the trigger it is writing to or closing, a step of an action's
\* goroutine those of its own trigger.
C16_NoInterference ==
  /\ [](\A t \in T :
          ~mu[t] => /\ buf[t] = solo[t].buf
                    /\ found[t] = solo[t].found)
  /\ [][\A t \in T :
          Touched(t) =>
            /\ \A u \in T \ {t} : ~Touched(u)
            /\ \/ procs'[t] # procs[t]
               \/ cur = t /\ pc \in {"write", "dispatch", "close", "wait"}]_vars

\* The copy goes on after a first chunk, with two triggers that have each
\* dispatched a match and whose actions are under way at the same time.
C16_Witness ==
  /\ N = 2
  /\ pc = "read"
  /\ rpos < Len(input)
  /\ \A t \in T : found[t] # <<>> /\ Pending(t) # {} /\ ~mu[t]

\* C17: a chunk is written to standard output before it is given to any
\* trigger, and the triggers are given the chunks in stream order, one
\* trigger after the other in command-line order: what a trigger has been
\* given is at every moment a prefix of what standard output has received,
\* so when an action starts, the bytes of the chunk that completed its match
\* have all been written to standard output.
C17_StdoutFirst ==
  /\ [](\A t \in T : /\ IsPrefix(seen[t], out)
                      /\ IsPrefix(out, input))
  /\ [][\A t \in T :
          /\ seen'[t] # seen[t] =>
               /\ seen'[t] = seen[t] \o chunk
               /\ seen'[t] = out
               /\ \A u \in T : seen[u] = IF u < t THEN seen'[t] ELSE seen[t]
          /\ started'[t] # started[t] =>
               /\ Len(started'[t]) <= Len(found[t])
               /\ IsPrefix(seen[t], out)]_vars

\* The action of a match is executing while the copy goes on; the chunk that
\* completed the match is on standard output and has gone to both triggers.
C17_Witness ==
  /\ N = 2
  /\ Copying
  /\ out # <<>>
  /\ Len(out) < Len(input)
  /\ \A t \in T : seen[t] = out
  /\ \E t \in T : InFlight(t) # {} /\ Len(found[t]) = 1

\* C18 (as claimed): a match attempt that reports a match removes at least
\* one byte from the buffer, so that a trigger never dispatches more actions
\* than it was given bytes and the loops of Write and Close come to an end,
\* in both modes and for every pattern.
C18_MatchConsumes ==
  /\ [][\A t \in T : Len(found'[t]) > Len(found[t]) =>
                        Len(buf'[t]) < Len(buf[t])]_vars
  /\ [](\A t \in T : Len(found[t]) <= Len(seen[t]))

\* C19: Close takes the slot of its trigger and does not give it back.  Once
\* Close has returned the channel is full although the trigger has no
\* goroutine and no action left, and it stays so: no action of the trigger
\* starts any more, and the send of a dispatch that found a match, or of
\* another Close, on that trigger could never go through.
C19_CloseKeepsSlot ==
  /\ [](\A t \in T : closed[t] => /\ sync[Slot(t)] = SyncCap
                                    /\ procs[t] = {}
                                    /\ InFlight(t) = {}
                                    /\ ~CanSend(t)
                                    /\ ~CloseSync(t))
  /\ [][\A t \in T : closed[t] => /\ closed'[t]
                                    /\ sync'[Slot(t)] = sync[Slot(t)]
                                    /\ started'[t] = started[t]
                                    /\ found'[t] = found[t]]_vars

\* The Close of the last trigger has returned after its actions were run,
\* and main is in the Close of the trigger before it.
C19_Witness ==
  /\ N = 2
  /\ closed[2]
  /\ started[2] # <<>>
  /\ InClose(1)

\* C20: the offsets handed to an action are offsets into the text handed
\* with them: the span of the match and the span of every group that took
\* part lie within the text, the groups within the match, so that
\* placeholder 0 expands to the bytes that matched the pattern and the
\* placeholder of a group to the part of them the group matched.  In line
\* mode the text is the line, without newline; in multi-line mode the text
\* ends where the match ends.
C20_OffsetsIntoText ==
  \A t \in T : \A i \in 1..Len(found[t]) :
    LET m == found[t][i].m
        text == found[t][i].text
        re == trig[t].re
        grp == trig[t].grp
    IN  /\ Len(m) = 2 + Len(grp)
        /\ 0 <= m[1] /\ m[1] <= m[2] /\ m[2] <= Len(text)
        /\ Expand(text, m, 0) = re
        /\ \A k \in 1..(Len(grp) \div 2) :
             IF grp[2 * k] < 0
             THEN m[2 * k + 1] = -1 /\ m[2 * k + 2] = -1
             ELSE /\ m[1] <= m[2 * k + 1]
                  /\ m[2 * k + 1] <= m[2 * k + 2]
                  /\ m[2 * k + 2] <= m[2]
                  /\ Expand(text, m, k) = SubSeq(re, grp[2 * k - 1] + 1, grp[2 * k])
        /\ IF trig[t].multi THEN m[2] = Len(text)
                            ELSE \A j \in 1..Len(text) : text[j] # NL

\* A multi-line trigger has dispatched a match that starts after the start
\* of the buffer and has a group, and a line trigger a match with a group
\* that took no part in it.
C20_Witness ==
  /\ \E t \in T : /\ trig[t].multi
                  /\ \E i \in 1..Len(found[t]) :
                       /\ found[t][i].m[1] > 0
                       /\ Len(found[t][i].m) = 4
                       /\ found[t][i].m[3] > 0
  /\ \E t \in T : /\ ~trig[t].multi
                  /\ \E i \in 1..Len(found[t]) :
                       /\ Len(found[t][i].m) = 4
                       /\ found[t][i].m[3] = -1
====
